---- MODULE Spec2Model ----
(***************************************************************************)
(* Model of the Contoso cafe bot's main dialog (the turn dispatcher).       *)
(*                                                                         *)
(* Two dispatcher variants are modelled:                                   *)
(*   "dispatch" : MainDialog.mainDispatch with its helpers, in              *)
(*                dialogs/shared/stateProperties/onTurnProperty.js          *)
(*                (lines 55-314 of that file)                              *)
(*   "continue" : MainDialog.onDialogContinue with its helpers, in          *)
(*                dialogs/mainDialog/index.js                              *)
(*                                                                         *)
(* A turn is a sequence of steps that follow the awaits of the code; pc is  *)
(* the position of the handler.  The child dialogs (sub-conversations) are  *)
(* not part of the sources: what one returns from begin/continue, and      *)
(* whether it sent a message, is a nondeterministic choice (ChildRuns).     *)
(* The dialog stack is the stack of the dialog context handed to the       *)
(* handler (dc.stack); dc.begin, dc.continue, dc.end and dc.cancelAll act   *)
(* on it as botbuilder-dialogs documents them.                              *)
(***************************************************************************)
EXTENDS Naturals, Sequences, FiniteSets, TLC

(* ------------------------------ bounds ------------------------------- *)

\* Deepest dialog stack explored: a turn that would push onto a stack of
\* this depth is not taken.
MaxDepth == 2

\* Deepest nesting of a card payload inside a card payload.
MaxNest == 1

(* ------------------------- names and constants ----------------------- *)

Undefined == "undefined"

QnA == "QnA"
ChitChat == "ChitChat"
Help == "Help"
Cancel == "Cancel"
WhoAreYou == "WhoAreYou"
FindCafeLocations == "FindCafeLocations"
WhatCanYouDo == "WhatCanYouDo"
BookTable == "BookTable"
NONE_INTENT == "None"
EmptyIntent == ""
BookTableSubmit == "Book_Table_Submit"
BookTableCancel == "Book_Table_Cancel"

\* The dialogs added to the dialog set of the "dispatch" variant.
DialogIds == {WhatCanYouDo, Cancel, FindCafeLocations, QnA, WhoAreYou}

\* Messages (what is sent, not its wording).
DenyCancelFirst == "Sorry! I'm unable to process that. You can say 'cancel'"
DenyNothingToCancel == "Sure, but there is nothing to cancel.."
DenyBookTable == "Sorry! I'm unable to process that. try 'Book a table'"
DenyNothingToCancelB == "Nothing to cancel."
ClosingPrompt == "Is there anything else I can help you with?"
StillLearning == "I'm still learning.. Sorry, I do not know how to help"
SearchLink == "Follow this link to search the web!"
HelloAgain == "Hello <name>, Nice to meet you again!"
HelloBot == "Hello, I'm the Contoso Cafe Bot."
ChooseQuery == "Try and choose a query from the card"
YouSaid == "You said: <text>"
ChildMessage == "<message of a sub-conversation>"
StubMessage == "<stub reply>"

(* ------------------------------ strings ------------------------------ *)

\* A string whose characters matter is a sequence of one-character strings.
Upper(c) == CASE c = "a" -> "A" [] c = "b" -> "B" [] c = "h" -> "H" [] OTHER -> c

alice == <<"a", "l">>
Alice == <<"A", "l">>
bob == <<"b", "o">>
Bob == <<"B", "o">>
Human == <<"H", "u">>
EmptyName == <<>>

\* Mutant of Capitalize: the name is stored as it was given.
CapitalizeNot(userName) == userName

\* userName.charAt(0).toUpperCase() + userName.slice(1)
Capitalize(userName) ==
    IF userName = <<>> THEN <<>> ELSE <<Upper(Head(userName))>> \o Tail(userName)

(* ---------------------------- turn signals ---------------------------- *)

\* OnTurnProperty: the intent, the values of the userName_patternAny
\* entities in order (each value an array of strings), and the values of the
\* 'query' entities in order.  text is the 'text' member a parsed card
\* payload may carry when it is used as a turn signal.
Signal(i, t, n, q) == [intent |-> i, text |-> t, names |-> n, query |-> q]

Plain(i) == Signal(i, Undefined, <<>>, <<>>)

\* What JSON.parse makes of a query entity's value.
Malformed == [kind |-> "malformed", obj |-> <<>>]
JsonNull == [kind |-> "null", obj |-> <<>>]
JsonScalar == [kind |-> "scalar", obj |-> <<>>]
JsonObject(s) == [kind |-> "object", obj |-> <<s>>]

\* Card payloads without a nested card payload.
Objects0 ==
    { Plain(FindCafeLocations), Plain(Undefined), Plain(Cancel),
      Signal(QnA, "q", <<>>, <<>>) }

Json0 == {Malformed, JsonNull, JsonScalar} \cup { JsonObject(s) : s \in Objects0 }

\* Card payloads that carry a card payload in their own query entity, n deep.
RECURSIVE Nested(_)
Nested(n) ==
    IF n = 0 THEN {Malformed, JsonNull, JsonObject(Plain(FindCafeLocations))}
    ELSE { JsonObject(Signal(WhatCanYouDo, Undefined, <<>>, <<j>>)) : j \in Nested(n - 1) }

JsonUpTo(n) == Json0 \cup UNION { Nested(k) : k \in 1..n }

NameEntities ==
    { <<>>, << <<alice>> >>, << <<bob>>, <<alice>> >>, << <<>> >> }

PlainIntents ==
    { QnA, Cancel, FindCafeLocations, NONE_INTENT, EmptyIntent, BookTable,
      BookTableSubmit, BookTableCancel }

\* The turn signals the extractor may hand to the dispatcher.
Signals ==
    { Plain(i) : i \in PlainIntents }
    \cup { Signal(WhoAreYou, Undefined, n, <<>>) : n \in NameEntities }
    \cup { Signal(WhatCanYouDo, Undefined, <<>>, q) :
               q \in {<<>>} \cup { <<j>> : j \in JsonUpTo(MaxNest) } }

(* ------------------------------ outcomes ------------------------------ *)

\* What a call returns to the dispatcher: a DialogTurnResult ("outcome"),
\* the receipt of a sent activity, undefined, or an exception ("raised").
\* reason: "noresult" (result is undefined), "noreason" (a result without a
\* reason), "Interruption", "Abandon".
Ret(k, s, r, p) == [kind |-> k, status |-> s, reason |-> r, payload |-> p]
Outcome(s, r, p) == Ret("outcome", s, r, p)
RetUndefined == Ret("undefined", Undefined, Undefined, <<>>)
Receipt == Ret("receipt", Undefined, Undefined, <<>>)
Raised == Ret("raised", Undefined, Undefined, <<>>)
Empty == Outcome("empty", "noresult", <<>>)
Waiting == Outcome("waiting", "noresult", <<>>)
Cancelled == Outcome("cancelled", "noresult", <<>>)
Complete == Outcome("complete", "noresult", <<>>)

\* Payloads of an Interruption (handed on as dialog options) and the turn
\* signals an Abandon carries (payload.onTurnProperty).
InterruptionPayloads == { Plain(FindCafeLocations) }
CarriedSignals == { Plain(QnA) }

CompleteOutcomes ==
    { Complete, Outcome("complete", "noreason", <<>>) }
    \cup { Outcome("complete", "Interruption", <<p>>) : p \in InterruptionPayloads }
    \cup { Outcome("complete", "Abandon", <<s>>) : s \in CarriedSignals }

Prefixes(s) == { SubSeq(s, 1, n) : n \in 0..Len(s) }

\* One run of the active sub-conversation chain on a non-empty stack s: the
\* active dialog may stay waiting, or end (dc.end pops it and resumes its
\* parent, which in turn waits or ends), or cancel.  complete is returned
\* when the last frame has ended; cancelled may leave frames of its parents.
ChildRuns(s) ==
    { [stack |-> p, ret |-> Waiting, spoke |-> b] :
          p \in Prefixes(s) \ {<<>>}, b \in BOOLEAN }
    \cup { [stack |-> <<>>, ret |-> o, spoke |-> b] :
          o \in CompleteOutcomes, b \in BOOLEAN }
    \cup { [stack |-> p, ret |-> Cancelled, spoke |-> b] :
          p \in Prefixes(s), b \in BOOLEAN }

(* ------------------------- the dialog context ------------------------- *)

\* dc.activeDialog.id, or undefined.
ActiveDialog(s) == IF s = <<>> THEN Undefined ELSE s[Len(s)]

\* dc.continue(): empty when no dialog is active, else the active one runs.
dcContinue(s) ==
    IF s = <<>> THEN { [stack |-> <<>>, ret |-> Empty, spoke |-> FALSE] }
    ELSE ChildRuns(s)

\* dc.begin(id): push the dialog and run it.
dcBegin(s, id) == ChildRuns(Append(s, id))

\* dc.end(): pop the active dialog; resume its parent when there is one,
\* else signal completion.
dcEnd(s) ==
    IF Len(s) <= 1 THEN { [stack |-> <<>>, ret |-> Complete, spoke |-> FALSE] }
    ELSE ChildRuns(SubSeq(s, 1, Len(s) - 1))

\* dc.cancelAll(): every frame is ended.
dcCancelAll(s) == <<>>

(* ----------------------- the permission evaluators --------------------- *)

Outcome_(a, r) == [allowed |-> a, reason |-> r]

\* Mutants of the evaluator of the "dispatch" variant: cancel is allowed
\* whatever is active; WhatCanYouDo is denied whenever a dialog is active.
IsRequestedOperationPossibleCancelAlways(activeDialog, requestedOperation) ==
    IF requestedOperation = WhatCanYouDo /\ activeDialog = WhoAreYou
    THEN Outcome_(FALSE, DenyCancelFirst)
    ELSE Outcome_(TRUE, "")

IsRequestedOperationPossibleAnyActive(activeDialog, requestedOperation) ==
    IF requestedOperation = WhatCanYouDo /\ activeDialog # Undefined
    THEN Outcome_(FALSE, DenyCancelFirst)
    ELSE IF requestedOperation = Cancel /\ activeDialog = Undefined
    THEN Outcome_(FALSE, DenyNothingToCancel)
    ELSE Outcome_(TRUE, "")

\* isRequestedOperationPossible of the "dispatch" variant; activeDialog is
\* dc.activeDialog.id or undefined.
IsRequestedOperationPossible(activeDialog, requestedOperation) ==
    IF requestedOperation = WhatCanYouDo
    THEN IF activeDialog = WhoAreYou
         THEN Outcome_(FALSE, DenyCancelFirst)
         ELSE Outcome_(TRUE, "")
    ELSE IF requestedOperation = Cancel
    THEN IF activeDialog = Undefined
         THEN Outcome_(FALSE, DenyNothingToCancel)
         ELSE Outcome_(TRUE, "")
    ELSE Outcome_(TRUE, "")

\* isRequestedOperationPossible of the "continue" variant; activeDialog is
\* the value of the active dialog property.
IsRequestedOperationPossibleB(activeDialog, requestedOperation) ==
    IF requestedOperation = BookTableSubmit \/ requestedOperation = BookTableCancel
    THEN IF activeDialog # BookTable
         THEN Outcome_(FALSE, DenyBookTable)
         ELSE Outcome_(TRUE, "")
    ELSE IF requestedOperation = Cancel
    THEN IF activeDialog # BookTable \/ activeDialog # WhoAreYou
         THEN Outcome_(FALSE, DenyNothingToCancelB)
         ELSE Outcome_(TRUE, "")
    ELSE Outcome_(TRUE, "")

(* ------------------------- beginning a child -------------------------- *)

\* The user profile property: undefined until written.
NoProfile == [defined |-> FALSE, userName |-> <<>>]
Profile(n) == [defined |-> TRUE, userName |-> n]

\* What one call of a begin helper does: the stack it leaves, the profile
\* it hands to userProfilePropertyAccessor.set (<<>> when it calls no set),
\* the messages it sends in order, the activity text it sets (<<>> when it
\* sets none), the dialogs it begins (with their options), what it returns,
\* and next: the turn signal of the beginChildDialog call it ends with
\* (<<>> when it ends with none).
Effect(s, w, m, t, b, r, n) ==
    [stack |-> s, set |-> w, sends |-> m, text |-> t, begun |-> b,
     ret |-> r, next |-> n]

Spoken(run) == IF run.spoke THEN <<ChildMessage>> ELSE <<>>

\* await dc.begin(id, options), returned as it is.
BeginDialog(s, p, id, options) ==
    { Effect(run.stack, <<>>, Spoken(run), <<>>, <<[id |-> id, options |-> options]>>,
             run.ret, <<>>) : run \in dcBegin(s, id) }

\* beginWhoAreYouDialog.
BeginWhoAreYouDialog(s, p, onTurnProperty) ==
    IF onTurnProperty.names # <<>>
    THEN LET entityValue == onTurnProperty.names[1] IN
         IF entityValue = <<>>
         THEN \* entityValue[0] is undefined: undefined.charAt raises
              { Effect(s, <<>>, <<>>, <<>>, <<>>, Raised, <<>>) }
         ELSE \* set(...) is called and not awaited; the greeting follows
              { Effect(s, <<Profile(Capitalize(entityValue[1]))>>, <<>>, <<>>,
                       <<>>, Receipt, <<>>) }
    ELSE IF ~p.defined \/ p.userName = <<>> \/ p.userName = Human
    THEN { Effect(run.stack, <<>>, <<HelloBot>> \o Spoken(run), <<>>,
                  <<[id |-> WhoAreYou, options |-> <<>>]>>, run.ret, <<>>) :
               run \in dcBegin(s, WhoAreYou) }
    ELSE { Effect(s, <<>>, <<HelloAgain>>, <<>>, <<>>, Receipt, <<>>) }

\* A parsed JSON value used as a turn signal: a scalar has no members.
AsSignal(json) == IF json.kind = "object" THEN json.obj[1] ELSE Plain(Undefined)

\* A variant without the catch of lines 299-304: a query that does not parse
\* goes on to the WhatCanYouDo dialog.
BeginWhatCanYouDoDialogNoCatch(s, p, onTurnProperty) ==
    IF onTurnProperty.query # <<>> /\ onTurnProperty.query[1].kind # "malformed"
    THEN LET parsedJSON == AsSignal(onTurnProperty.query[1])
         IN  { Effect(s, <<>>, <<>>, <<>>, <<>>, RetUndefined, <<parsedJSON>>) }
    ELSE BeginDialog(s, p, WhatCanYouDo, <<>>)

\* beginWhatCanYouDoDialog.
BeginWhatCanYouDoDialog(s, p, onTurnProperty) ==
    IF onTurnProperty.query # <<>>
    THEN LET json == onTurnProperty.query[1]
             parsedJSON == AsSignal(json)
         IN  IF json.kind = "malformed"
             THEN { Effect(s, <<>>, <<ChooseQuery>>, <<>>, <<>>, Receipt, <<>>) }
             ELSE IF json.kind = "null"
             THEN \* parsedJSON.text of null raises
                  { Effect(s, <<>>, <<>>, <<>>, <<>>, Raised, <<>>) }
             ELSE IF parsedJSON.text # Undefined
             THEN { Effect(s, <<>>, <<YouSaid>>, <<parsedJSON.text>>, <<>>,
                           RetUndefined, <<parsedJSON>>) }
             ELSE { Effect(s, <<>>, <<>>, <<>>, <<>>, RetUndefined, <<parsedJSON>>) }
    ELSE BeginDialog(s, p, WhatCanYouDo, <<>>)

\* beginChildDialog of the "dispatch" variant: one pass through its switch.
BeginChildDialog(s, p, onTurnProperty, childDialogPayload) ==
    LET intent == onTurnProperty.intent IN
    IF intent \in {QnA, ChitChat, Help} THEN BeginDialog(s, p, QnA, <<>>)
    ELSE IF intent = Cancel THEN BeginDialog(s, p, Cancel, childDialogPayload)
    ELSE IF intent = WhoAreYou THEN BeginWhoAreYouDialog(s, p, onTurnProperty)
    ELSE IF intent = FindCafeLocations THEN BeginDialog(s, p, FindCafeLocations, <<>>)
    ELSE IF intent = WhatCanYouDo THEN BeginWhatCanYouDoDialog(s, p, onTurnProperty)
    ELSE IF intent = NONE_INTENT
    THEN { Effect(s, <<>>, <<StillLearning, SearchLink>>, <<>>, <<>>, Receipt, <<>>) }
    ELSE { Effect(s, <<>>, <<>>, <<>>, <<>>, RetUndefined, <<>>) }

\* What qnaDialog.onTurn(context) of the "continue" variant may return: it
\* is handed the turn context only, so it cannot touch the dialog stack.
QnAOnTurn ==
    { [ret |-> r, spoke |-> b] :
          r \in {RetUndefined, Complete, Waiting, Cancelled}, b \in BOOLEAN }

\* beginChildDialog of the "continue" variant.
BeginChildDialogB(s, p, onTurnProperty) ==
    LET intent == onTurnProperty.intent IN
    IF intent \in {QnA, ChitChat, Help}
    THEN { Effect(s, <<>>, Spoken(run), <<>>, <<>>, run.ret, <<>>) : run \in QnAOnTurn }
    ELSE IF intent \in {Cancel, BookTable, WhoAreYou, FindCafeLocations}
    THEN { Effect(s, <<>>, <<StubMessage>>, <<>>, <<>>, Receipt, <<>>) }
    ELSE { Effect(s, <<>>, <<>>, <<>>, <<>>, RetUndefined, <<>>) }

(* ------------------------------- state -------------------------------- *)

VARIABLES
    variant,               \* which dispatcher handles the turns
    stack,                 \* dc.stack: the ids of the dialogs begun and not ended
    activeDialogProperty,  \* the active dialog property of the "continue" variant
    userProfile,           \* the user profile property
    pendingWrite,          \* the profile of a set(...) that has not completed
    pc,                    \* position of the handler: "idle" before the first
                           \* turn, "done" when a turn has returned
    onTurnProperty,        \* the turn signal of the turn
    curProperty,           \* beginChildDialog's onTurnProperty argument
    childDialogPayload,    \* beginChildDialog's childDialogPayload argument
    retTo,                 \* where the running beginChildDialog returns to
    dialogTurnResult,      \* the handler's local of that name
    sent,                  \* the messages sent in the turn, in order
    text,                  \* dc.context.activity.text
    begun,                 \* the dialogs begun in the turn, with their options
    depth0,                \* the depth of the stack when the turn started
    kept0,                 \* how many of those frames have stayed on the stack
    denied,                \* the permission check denied the turn
    continued,             \* what dc.continue() did in the turn
    redispatched,          \* the turn signals of the turn's re-dispatches
    hops,                  \* entries of beginChildDialog in the turn
    returned,              \* what the handler returned to its caller
    exit,                  \* where the handler returned from
    prev                   \* what the turn before did with the active dialog

vars ==
    << variant, stack, activeDialogProperty, userProfile, pendingWrite, pc,
       onTurnProperty, curProperty, childDialogPayload, retTo, dialogTurnResult, sent, text, begun,
       depth0, kept0, denied, continued, redispatched, hops, returned, exit, prev >>

\* The values of the active dialog property the "continue" variant may
\* find: the property is written by the dialogs it is handed to.
ActiveProperties == {Undefined, BookTable, WhoAreYou, QnA}

NotContinued == [ran |-> FALSE, ret |-> RetUndefined, spoke |-> FALSE, kept |-> FALSE]
Utterance == "utterance"

\* The record of the turn before: "answered" when that turn resumed the
\* active sub-conversation, which sent a message and stayed waiting, and the
\* turn began no dialog and left the stack as it was; "stirred" when it did
\* begin a dialog or change the stack; "other" for any other turn.
NoPrev == "other"

Init ==
    /\ variant \in {"dispatch", "continue"}
    /\ stack = <<>>
    /\ activeDialogProperty \in
           IF variant = "continue" THEN ActiveProperties ELSE {Undefined}
    /\ userProfile \in {NoProfile, Profile(Human)}
    /\ pendingWrite = <<>>
    /\ pc = "idle"
    /\ onTurnProperty = Plain(Undefined)
    /\ curProperty = Plain(Undefined)
    /\ childDialogPayload = <<>>
    /\ retTo = "reconcile"
    /\ dialogTurnResult = RetUndefined
    /\ sent = <<>>
    /\ text = Utterance
    /\ begun = <<>>
    /\ depth0 = 0
    /\ kept0 = 0
    /\ denied = FALSE
    /\ continued = NotContinued
    /\ redispatched = <<>>
    /\ hops = 0
    /\ returned = RetUndefined
    /\ exit = "none"
    /\ prev = NoPrev

\* A turn that was allowed, resumed the active sub-conversation and found it
\* still waiting, the same frames on the stack.
ResumedWaiting ==
    ~denied /\ continued.ran /\ continued.ret = Waiting /\ continued.kept

Min(a, b) == IF a < b THEN a ELSE b

\* The frames the turn found on the stack are all still there, and nothing
\* is above them: the stack is what it was when the turn started.
StackUnchanged == Len(stack) = depth0 /\ kept0 = depth0

\* dc.context.responded
Responded(messages) == messages # <<>>

\* The handler is entered with the turn's signal: the turn's record starts
\* afresh.
Enter(sig) ==
    /\ pc \in {"idle", "done"}
    /\ onTurnProperty' = sig
    /\ text' = Utterance
    /\ begun' = <<>>
    /\ depth0' = Len(stack)
    /\ continued' = NotContinued
    /\ redispatched' = <<>>
    /\ hops' = 0
    /\ prev' = IF pc = "done" /\ ResumedWaiting /\ continued.spoke
               THEN IF StackUnchanged /\ begun = <<>> THEN "answered" ELSE "stirred"
               ELSE NoPrev
    /\ UNCHANGED << variant, activeDialogProperty, userProfile, pendingWrite >>

\* The handler goes on after the permission check.
Proceed(sig) ==
    /\ pc' = "continue"
    /\ exit' = "none"
    /\ returned' = RetUndefined
    /\ curProperty' = sig
    /\ childDialogPayload' = <<>>
    /\ retTo' = "reconcile"
    /\ dialogTurnResult' = RetUndefined

\* The handler returns result at the place named (or raises): its locals
\* are gone.
Leave(result, place) ==
    /\ pc' = "done"
    /\ exit' = place
    /\ returned' = result
    /\ curProperty' = Plain(Undefined)
    /\ childDialogPayload' = <<>>
    /\ retTo' = "reconcile"
    /\ dialogTurnResult' = RetUndefined

(* --------------------- the "dispatch" variant ------------------------- *)

\* mainDispatch, up to the permission check: a denied turn sends the
\* reason and returns dc.end().
MainDispatch ==
    /\ variant = "dispatch"
    /\ \E sig \in Signals :
        LET reqOpStatus == IsRequestedOperationPossible(ActiveDialog(stack), sig.intent) IN
        /\ Enter(sig)
        /\ denied' = ~reqOpStatus.allowed
        /\ IF ~reqOpStatus.allowed
           THEN \E run \in dcEnd(stack) :
                   /\ sent' = <<reqOpStatus.reason>> \o Spoken(run)
                   /\ stack' = run.stack
                   /\ kept0' = Len(run.stack)
                   /\ Leave(run.ret, "denied")
           ELSE /\ sent' = <<>>
                /\ stack' = stack
                /\ kept0' = Len(stack)
                /\ Proceed(sig)

\* dialogTurnResult = await dc.continue(), and the choice the handler makes
\* on dc.context.responded.
Continue ==
    /\ variant = "dispatch"
    /\ pc = "continue"
    /\ \E run \in dcContinue(stack) :
        /\ stack' = run.stack
        /\ kept0' = Min(kept0, Len(run.stack))
        /\ sent' = sent \o Spoken(run)
        /\ dialogTurnResult' = run.ret
        /\ continued' = [ran |-> stack # <<>>, ret |-> run.ret, spoke |-> run.spoke,
                         kept |-> run.stack = stack]
        /\ pc' = IF Responded(sent') THEN "reconcile" ELSE "begin"
    /\ UNCHANGED << variant, activeDialogProperty, userProfile, pendingWrite,
                    onTurnProperty,
                    curProperty, childDialogPayload, retTo, text, begun, depth0,
                    denied, redispatched, hops, returned, exit, prev >>

\* One pass through beginChildDialog.  A card payload ends the pass with a
\* call of beginChildDialog on the parsed payload (the next pass); an
\* exception leaves the handler.
BeginChild ==
    /\ variant = "dispatch"
    /\ pc = "begin"
    /\ \E eff \in BeginChildDialog(stack, userProfile, curProperty, childDialogPayload) :
        /\ Len(eff.stack) <= MaxDepth
        /\ stack' = eff.stack
        /\ kept0' = Min(kept0, Len(eff.stack))
        /\ pendingWrite' = IF eff.set # <<>> THEN eff.set ELSE pendingWrite
        /\ sent' = sent \o eff.sends
        /\ text' = IF eff.text = <<>> THEN text ELSE eff.text[1]
        /\ begun' = begun \o eff.begun
        /\ hops' = hops + 1
        /\ IF eff.next # <<>>
           THEN /\ curProperty' = eff.next[1]
                /\ childDialogPayload' = <<>>
                /\ pc' = "begin"
                /\ UNCHANGED << retTo, dialogTurnResult, returned, exit >>
           ELSE IF eff.ret = Raised
           THEN Leave(Raised, "raised")
           ELSE /\ pc' = IF eff.set # <<>> THEN "greet" ELSE retTo
                /\ dialogTurnResult' = eff.ret
                /\ UNCHANGED << retTo, curProperty, childDialogPayload, returned, exit >>
    /\ UNCHANGED << variant, activeDialogProperty, userProfile, onTurnProperty, depth0,
                    denied, continued, redispatched, prev >>

\* beginWhoAreYouDialog after its call of set: the greeting is sent.
Greet ==
    /\ variant = "dispatch"
    /\ pc = "greet"
    /\ sent' = Append(sent, HelloAgain)
    /\ pc' = "greeted"
    /\ UNCHANGED << variant, stack, activeDialogProperty, userProfile, pendingWrite,
                    onTurnProperty, curProperty, childDialogPayload, retTo,
                    dialogTurnResult, text, begun, depth0, kept0, denied, continued,
                    redispatched, hops, returned, exit, prev >>

\* The set(...) that was not awaited completes: at any point after its call,
\* before or after the greeting is handed to the channel, and before the
\* awaited send of the greeting has resolved (the profile is in the state
\* cache since the get of line 266, so the write needs no I/O of its own,
\* while the send resolves on the channel's answer).
SetCompletes ==
    /\ pendingWrite # <<>>
    /\ userProfile' = pendingWrite[1]
    /\ pendingWrite' = <<>>
    /\ UNCHANGED << variant, stack, activeDialogProperty, pc, onTurnProperty,
                    curProperty, childDialogPayload, retTo, dialogTurnResult, sent,
                    text, begun, depth0, kept0, denied, continued, redispatched,
                    hops, returned, exit, prev >>

\* Mutant: the re-dispatch after an Interruption takes the payload as the
\* turn signal.
InterruptionPropertyFromPayload(turnProperty, result) == result.payload[1]

\* The turn signal the handler re-dispatches with after an Interruption,
\* and after an Abandon.
InterruptionProperty(turnProperty, result) == turnProperty
AbandonProperty(turnProperty, result) == result.payload[1]

\* dialogTurnResult === undefined ? new TurnResultHelper(empty) : dialogTurnResult
OrEmpty(result) == IF result.kind = "undefined" THEN Empty ELSE result

\* The awaited send of the greeting resolves and beginChildDialog returns
\* its receipt.
Greeted ==
    /\ variant = "dispatch"
    /\ pc = "greeted"
    /\ pendingWrite = <<>>
    /\ pc' = retTo
    /\ UNCHANGED << variant, stack, activeDialogProperty, userProfile, pendingWrite,
                    onTurnProperty, curProperty, childDialogPayload, retTo,
                    dialogTurnResult, sent, text, begun, depth0, kept0, denied,
                    continued, redispatched, hops, returned, exit, prev >>

\* The handler examines dialogTurnResult: the switch on its status.
Reconcile ==
    /\ variant = "dispatch"
    /\ pc = "reconcile"
    /\ IF dialogTurnResult.kind = "undefined"
       THEN \* return await dc.end()
            \E run \in dcEnd(stack) :
               /\ stack' = run.stack
               /\ sent' = sent \o Spoken(run)
               /\ Leave(run.ret, "ended")
               /\ UNCHANGED redispatched
       ELSE IF dialogTurnResult.status = "complete"
               /\ dialogTurnResult.reason \in {"Interruption", "Abandon"}
       THEN /\ curProperty' =
                   IF dialogTurnResult.reason = "Interruption"
                   THEN InterruptionProperty(onTurnProperty, dialogTurnResult)
                   ELSE AbandonProperty(onTurnProperty, dialogTurnResult)
            /\ childDialogPayload' =
                   IF dialogTurnResult.reason = "Interruption"
                   THEN dialogTurnResult.payload ELSE <<>>
            /\ redispatched' =
                   Append(redispatched,
                          [reason |-> dialogTurnResult.reason, property |-> curProperty',
                           payload |-> childDialogPayload'])
            /\ retTo' = "finish"
            /\ pc' = "begin"
            /\ UNCHANGED << stack, sent, returned, dialogTurnResult, exit >>
       ELSE /\ IF dialogTurnResult.status = "complete"
                  /\ dialogTurnResult.reason = "noresult"
               THEN /\ sent' = Append(sent, ClosingPrompt)
                    /\ stack' = stack
               ELSE IF dialogTurnResult.status = "cancelled"
               THEN /\ sent' = Append(sent, ClosingPrompt)
                    /\ stack' = dcCancelAll(stack)
               ELSE UNCHANGED << sent, stack >>
            /\ Leave(OrEmpty(dialogTurnResult), "switch")
            /\ UNCHANGED redispatched
    /\ kept0' = Min(kept0, Len(stack'))
    /\ UNCHANGED << variant, activeDialogProperty, userProfile, pendingWrite,
                    onTurnProperty,
                    text, begun, depth0, denied, continued, hops, prev >>

\* After a re-dispatch the handler leaves the switch and returns.
Finish ==
    /\ variant = "dispatch"
    /\ pc = "finish"
    /\ Leave(OrEmpty(dialogTurnResult), "finish")
    /\ UNCHANGED << variant, stack, activeDialogProperty, userProfile, pendingWrite,
                    onTurnProperty,
                    sent, text, begun, depth0, kept0, denied, continued, redispatched,
                    hops, prev >>

(* --------------------- the "continue" variant ------------------------- *)

\* onDialogContinue, up to the permission check: a denied turn sends the
\* reason and returns the empty result.
OnDialogContinue ==
    /\ variant = "continue"
    /\ \E sig \in Signals :
        LET reqOpStatus == IsRequestedOperationPossibleB(activeDialogProperty, sig.intent) IN
        /\ Enter(sig)
        /\ denied' = ~reqOpStatus.allowed
        /\ stack' = stack
        /\ kept0' = Len(stack)
        /\ IF ~reqOpStatus.allowed
           THEN /\ sent' = <<reqOpStatus.reason>>
                /\ Leave(Empty, "denied")
           ELSE /\ sent' = <<>>
                /\ Proceed(sig)

\* dialogTurnResult = await dc.continue(); any status but empty is returned
\* as it is.
ContinueB ==
    /\ variant = "continue"
    /\ pc = "continue"
    /\ \E run \in dcContinue(stack) :
        /\ stack' = run.stack
        /\ kept0' = Min(kept0, Len(run.stack))
        /\ sent' = sent \o Spoken(run)
        /\ continued' = [ran |-> stack # <<>>, ret |-> run.ret, spoke |-> run.spoke,
                         kept |-> run.stack = stack]
        /\ IF run.ret.status # "empty"
           THEN Leave(run.ret, "early")
           ELSE /\ pc' = "begin"
                /\ dialogTurnResult' = run.ret
                /\ UNCHANGED << curProperty, childDialogPayload, retTo, returned, exit >>
    /\ UNCHANGED << variant, activeDialogProperty, userProfile, pendingWrite,
                    onTurnProperty,
                    text, begun, depth0, denied, redispatched, hops, prev >>

\* The empty case of the switch: beginChildDialog, and the return.
BeginChildB ==
    /\ variant = "continue"
    /\ pc = "begin"
    /\ \E eff \in BeginChildDialogB(stack, userProfile, curProperty) :
        /\ sent' = sent \o eff.sends
        /\ Leave(OrEmpty(eff.ret), "begun")
    /\ hops' = hops + 1
    /\ UNCHANGED << variant, stack, activeDialogProperty, userProfile, pendingWrite,
                    onTurnProperty,
                    text, begun, depth0, kept0, denied, continued, redispatched, prev >>

Next ==
    \/ MainDispatch
    \/ Continue
    \/ BeginChild
    \/ Greet
    \/ Greeted
    \/ SetCompletes
    \/ Reconcile
    \/ Finish
    \/ OnDialogContinue
    \/ ContinueB
    \/ BeginChildB

Spec == Init /\ [][Next]_vars

(* ------------------------------ properties ----------------------------- *)

Has(m, messages) == \E i \in DOMAIN messages : messages[i] = m
Count(m, messages) == Cardinality({ i \in DOMAIN messages : messages[i] = m })
Last(q) == q[Len(q)]

\* The dialog the switch of beginChildDialog begins for an intent.
DialogOf(intent) == IF intent \in {QnA, ChitChat, Help} THEN QnA ELSE intent

\* The intents with a case of their own in beginChildDialog, per variant.
Handled(v) ==
    IF v = "dispatch"
    THEN {QnA, ChitChat, Help, Cancel, WhoAreYou, FindCafeLocations, WhatCanYouDo}
    ELSE {QnA, ChitChat, Help, Cancel, BookTable, WhoAreYou, FindCafeLocations}

TurnDone == pc = "done"

\* C1: a turn the permission check denies leaves the dialog stack, and with
\* it the active dialog, as it found them.
C1_DeniedTurnLeavesState == (TurnDone /\ denied) => StackUnchanged

\* C2: an allowed turn of the dispatch variant whose intent has no
\* sub-conversation, taken while no sub-conversation is active, sends the "I don't understand" message and
\* returns an empty or complete result, without raising.
C2_UnknownIntentFallsBack ==
    (TurnDone /\ variant = "dispatch" /\ ~denied /\ depth0 = 0
        /\ onTurnProperty.intent \notin Handled(variant))
        => /\ Has(StillLearning, sent)
           /\ returned.kind = "outcome"
           /\ returned.status \in {"empty", "complete"}

C4_CancelledClearsAll ==
    (TurnDone /\ variant = "dispatch" /\ exit \in {"switch", "finish"}
        /\ returned.status = "cancelled")
        => (Has(ClosingPrompt, sent) /\ stack = <<>>)

\* C5: when the result the dispatch variant returns is a plain complete
\* (no Interruption, no Abandon), the turn has sent the closing prompt
\* exactly once and no sub-conversation is active.
C5_PlainCompleteSendsClosingPrompt ==
    (TurnDone /\ variant = "dispatch" /\ exit \in {"switch", "finish"}
        /\ returned.status = "complete"
        /\ returned.reason \in {"noresult", "noreason"})
        => (Count(ClosingPrompt, sent) = 1 /\ stack = <<>>)

\* C6: a turn that resumes the active sub-conversation, which stays waiting,
\* leaves the stack as it found it.
C6_WaitingKeepsStack == (TurnDone /\ ResumedWaiting) => StackUnchanged

\* C7: of two consecutive allowed turns that resume the same active
\* sub-conversation and find it waiting, the second begins no dialog and
\* leaves the stack as it found it (the first did so, prev = "answered").
C7_TwoWaitingTurnsStartNothing ==
    (TurnDone /\ prev = "answered" /\ ResumedWaiting)
        => (StackUnchanged /\ begun = <<>>)

\* C8: when the resumed sub-conversation ends with an Abandon, the dialog
\* the turn begins is the one of the intent of the turn signal the Abandon
\* carries, not of the turn's own signal.
C8_AbandonRestoresCarried ==
    (TurnDone /\ exit # "raised" /\ continued.ran /\ continued.ret.reason = "Abandon")
        => /\ begun # <<>>
           /\ begun[1].id = DialogOf(continued.ret.payload[1].intent)

\* C9: a sub-conversation that was waiting alone when the turn started, and
\* that the turn neither resumed nor cancelled, is still the active one when
\* the turn has returned: the marker is not undefined while it waits.
C9_MarkerNamesTheWaiting ==
    (TurnDone /\ exit # "raised" /\ depth0 = 1 /\ ~continued.ran /\ begun = <<>>)
        => (ActiveDialog(stack) # Undefined /\ StackUnchanged)

\* C10: what a turn returns (when it does not raise) is a turn result whose
\* status is empty, waiting, complete or cancelled.
C10_ReturnsTurnOutcome ==
    (TurnDone /\ exit # "raised")
        => /\ returned.kind = "outcome"
           /\ returned.status \in {"empty", "waiting", "complete", "cancelled"}

\* A step in which a handler is entered with a turn, and what the permission
\* check of that handler then reads as the active dialog.
TurnStarts == pc \in {"idle", "done"} /\ pendingWrite' = pendingWrite
ActiveAtEntry ==
    IF variant = "dispatch" THEN ActiveDialog(stack) ELSE activeDialogProperty

\* C11: a turn with intent Cancel entered while no dialog is active is
\* denied, and the message sent is the variant's "nothing to cancel" reason.
C11_CancelWithNothingActiveDenied ==
    [][ (TurnStarts /\ onTurnProperty'.intent = Cancel /\ ActiveAtEntry = Undefined)
        => (/\ denied'
            /\ sent' = << IF variant = "dispatch" THEN DenyNothingToCancel
                          ELSE DenyNothingToCancelB >>
            /\ begun' = <<>>) ]_vars

C11_Witness ==
    /\ TurnDone /\ variant = "dispatch" /\ denied /\ depth0 = 0
    /\ onTurnProperty.intent = Cancel
    /\ sent = <<DenyNothingToCancel>>

\* C12: a turn with one of the card-only intents Book_Table_Submit and
\* Book_Table_Cancel is denied exactly when the active dialog at entry is
\* not BookTable, and the denial sends the 'Book a table' guidance.
C12_CardOnlyIntentsNeedBookTable ==
    [][ (TurnStarts /\ onTurnProperty'.intent \in {BookTableSubmit, BookTableCancel})
        => (/\ denied' <=> (ActiveAtEntry # BookTable)
            /\ denied' => sent'[1] = DenyBookTable) ]_vars

\* C13: a turn whose (intent, active dialog) pair matches none of the policy
\* rules (a card-only intent outside BookTable; cancel outside the two
\* multi-turn flows, nothing active included; WhatCanYouDo during WhoAreYou)
\* is allowed: the permission check sends nothing and touches nothing.
C13_UnmatchedPairsAllowed ==
    [][ LET requestedOperation == onTurnProperty'.intent
            MatchesPolicyRule ==
                \/ requestedOperation \in {BookTableSubmit, BookTableCancel}
                      /\ ActiveAtEntry # BookTable
                \/ requestedOperation = Cancel
                      /\ ActiveAtEntry \notin {BookTable, WhoAreYou}
                \/ requestedOperation = WhatCanYouDo /\ ActiveAtEntry = WhoAreYou
        IN  (TurnStarts /\ ~MatchesPolicyRule)
            => (/\ ~denied'
                /\ sent' = <<>>
                /\ stack' = stack
                /\ activeDialogProperty' = activeDialogProperty) ]_vars

\* C17: in the continue variant a turn with intent Cancel is denied exactly
\* when the active dialog is neither BookTable nor WhoAreYou.
C17_CancelAllowedInMultiTurnFlows ==
    [][ (TurnStarts /\ variant = "continue" /\ onTurnProperty'.intent = Cancel)
        => (/\ denied' <=> (ActiveAtEntry \notin {BookTable, WhoAreYou})
            /\ denied' => sent' = <<DenyNothingToCancelB>>) ]_vars

\* C18: in the dispatch variant a turn with intent WhatCanYouDo is denied
\* exactly when WhoAreYou is the active dialog at entry, and the denial
\* sends the "say 'cancel'" reason first.
C18_WhatCanYouDoDeniedDuringWhoAreYou ==
    [][ (TurnStarts /\ variant = "dispatch" /\ onTurnProperty'.intent = WhatCanYouDo)
        => (/\ denied' <=> (ActiveAtEntry = WhoAreYou)
            /\ denied' => sent'[1] = DenyCancelFirst) ]_vars

C18_Witness ==
    /\ TurnDone /\ variant = "dispatch" /\ denied /\ depth0 > 0
    /\ onTurnProperty.intent = WhatCanYouDo
    /\ sent[1] = DenyCancelFirst

MalformedQueryStep ==
    /\ variant = "dispatch"
    /\ pc = "begin"
    /\ curProperty.intent = WhatCanYouDo
    /\ curProperty.query # <<>>
    /\ curProperty.query[1].kind = "malformed"

\* C15: a WhatCanYouDo turn whose card query is not valid JSON sends the
\* corrective message and nothing else: the turn's text is not rewritten,
\* beginChildDialog is not re-entered, no dialog is started, and the stack and
\* the stored profile are unchanged; a turn that starts with nothing active
\* ends with that one message and one pass through beginChildDialog.
C15_MalformedQueryOnlyCorrects ==
    /\ [][ MalformedQueryStep
           => (/\ sent' = Append(sent, ChooseQuery)
               /\ dialogTurnResult' = Receipt
               /\ pc' = retTo
               /\ hops' = hops + 1
               /\ UNCHANGED << text, stack, begun, userProfile, pendingWrite,
                               curProperty >>) ]_vars
    /\ [](( /\ TurnDone /\ variant = "dispatch" /\ depth0 = 0 /\ ~denied
            /\ onTurnProperty.intent = WhatCanYouDo
            /\ onTurnProperty.query # <<>>
            /\ onTurnProperty.query[1].kind = "malformed" )
           => (/\ sent = <<ChooseQuery>> /\ text = Utterance /\ begun = <<>>
               /\ stack = <<>> /\ hops = 1 /\ returned = Receipt))

C15_Witness ==
    /\ TurnDone /\ variant = "dispatch" /\ depth0 = 0 /\ ~denied
    /\ onTurnProperty.intent = WhatCanYouDo
    /\ onTurnProperty.query # <<>>
    /\ onTurnProperty.query[1].kind = "malformed"
    /\ sent = <<ChooseQuery>> /\ hops = 1

\* C16: in a turn the permission check denies, the active dialog is not
\* resumed, no dialog is started, and the denial reason is the only message
\* the turn sends.
C16_DeniedTurnOnlySendsReason ==
    (TurnDone /\ denied)
        => (/\ ~continued.ran
            /\ begun = <<>>
            /\ hops = 0
            /\ Len(sent) = 1)

\* C19: whatever the turn signal and the payload parsed from its card query,
\* a turn that is not re-dispatched after an interruption enters
\* beginChildDialog at most twice: once for the signal and at most once more
\* for the parsed payload.
C19_CardRedispatchAtMostOnce ==
    (variant = "dispatch" /\ redispatched = <<>>) => hops <= 2

\* C20: no write to the state store is pending when the step after it runs:
\* in the WhoAreYou re-introduction the write of the profile has completed
\* when the greeting is sent.
C20_ProfileWrittenBeforeGreeting ==
    [][ (pc = "greet" /\ pc' = "greeted") => pendingWrite = <<>> ]_vars

\* C21: whenever a pass through beginChildDialog starts a dialog, the
\* permission check allows the pass's intent for the dialog that is active
\* at that moment: on the direct start, on the pass for a parsed card payload
\* and on the re-dispatch after an Interruption or Abandon outcome.
C21_NoStartForDeniedIntent ==
    [][ (variant = "dispatch" /\ pc = "begin" /\ begun' # begun)
           => IsRequestedOperationPossible(ActiveDialog(stack),
                                           curProperty.intent).allowed ]_vars

\* C22: a WhatCanYouDo turn whose card query parses as JSON, whatever the
\* parsed value, gets through beginChildDialog without an exception and
\* sends at least one message.
C22_ParsedQueryNeverRaises ==
    ( /\ TurnDone /\ variant = "dispatch" /\ ~denied
      /\ onTurnProperty.intent = WhatCanYouDo
      /\ onTurnProperty.query # <<>>
      /\ onTurnProperty.query[1].kind # "malformed"
      /\ hops >= 1 /\ redispatched = <<>> )
        => (returned # Raised /\ exit # "raised" /\ sent # <<>>)

====
